---- MODULE Spec2Model ----
(***************************************************************************)
(* Time-stepping solvers of porepy/numerics/pde_solver.py: AbstractSolver  *)
(* and the schemes Implicit, BDF2, Explicit and CrankNicolson.             *)
(*                                                                         *)
(* The problem has a single degree of freedom, so a matrix and a vector    *)
(* are each one number.  Numbers are exact rationals <<n, d>> (d > 0,      *)
(* lowest terms); spsolve(lhs, rhs) is the exact quotient rhs / lhs.       *)
(*                                                                         *)
(* Times are doubles in the code.  Here they are integers counted in units *)
(* of 5e-7 s, so the tolerance 1e-6 of BDF2.update is 2 units.  The        *)
(* problems keep to two ranges in which a sum or difference of times has   *)
(* in double precision the value it has here:                              *)
(*   - a few units: the rounding of a sum is below 1e-20 and two times     *)
(*     differ by nothing or by 5e-7 at least;                              *)
(*   - whole seconds: every time is an integer below 2^53, sums and        *)
(*     differences are exact.                                              *)
(* The one sum that rounds is `bound + 1e-14` of the loop tests: PlusEps.  *)
(*                                                                         *)
(* Spec is one run: construction, then one solve().  DiscSpec is           *)
(* _discretize called alone, FreeSpec the methods called in any order,     *)
(* FairSpec a run of solve() in which every statement reached is executed. *)
(***************************************************************************)
EXTENDS Integers, Sequences, FiniteSets, TLC

\* ------------------------------------------------------------------ bounds
\* longest run (in steps) of the broad family of problems
MaxSteps == 3
\* length (in steps) of the long runs of the scalar decay problem
LongSteps == 10
\* number of calls of _discretize made one after the other
MaxCalls == 3
\* number of calls already made when the caller may still make another
MaxTrace == 3

\* ------------------------------------------------------- program constants
\* 1e-6 (BDF2.update) in time units
Eps6 == 2
\* one second in time units
Second == 2000000
\* 128 s: from here on half the spacing of the doubles, 2^-47 s at least,
\* exceeds the 1e-14 of the loop tests
Absorb == 256000000

\* ------------------------------------------------------ exact rationals
Abs(x) == IF x < 0 THEN -x ELSE x

RECURSIVE GCD(_, _)
GCD(a, b) == IF b = 0 THEN a ELSE GCD(b, a % b)

Reduce(n, d, g) == <<n \div g, d \div g>>

Rat(n, d) ==
    IF d < 0 THEN Reduce(-n, -d, GCD(Abs(n), Abs(d)))
    ELSE Reduce(n, d, GCD(Abs(n), Abs(d)))

R(i) == <<i, 1>>

Lcm(x, y) == (x \div GCD(x, y)) * y

OverDen(a, b, l) == Rat(a[1] * (l \div a[2]) + b[1] * (l \div b[2]), l)

RAdd(a, b) == OverDen(a, b, Lcm(a[2], b[2]))

RNeg(a) == <<-a[1], a[2]>>

RSub(a, b) == RAdd(a, RNeg(b))

Cross(x, y) == <<x[1] * y[1], x[2] * y[2]>>

RMul(a, b) == Cross(Rat(a[1], b[2]), Rat(b[1], a[2]))

RDiv(a, b) == RMul(a, Rat(b[2], b[1]))

\* the literals 2./3, 4./3, 1./3 and 0.5 of the schemes
TwoThirds == <<2, 3>>
FourThirds == <<4, 3>>
OneThird == <<1, 3>>
Half == <<1, 2>>

\* ------------------------------------------------------------ python values
\* an attribute that holds [] or is not set
None == <<>>

\* a vector object: a fresh array (its value) or the array a term keeps and
\* hands back on every call (a reference into the terms' stored vectors)
Fresh(v) == [ref |-> "none", val |-> v]
Stored(name) == [ref |-> name, val |-> <<0, 1>>]

VARIABLES
    prob,      \* the problem descriptor: class, grid, terms, dt, T, initial condition
    pc,        \* position of the caller: init, ready, loop, reassemble, step, done, raised
    exc,       \* the exception that ended the run, or "none"
    t,         \* local t of solve()
    self,      \* attributes of the solver object
    data,      \* problem.data(): the logs data[physics] and data['times']
    env,       \* collaborators: time of the last problem.update, the terms' stored vectors
    nsteps,    \* history: number of step() executions
    accepted,  \* history: <<initial condition, state after step 1, ...>>
    asm,       \* history: the pairs each assembly returned
    calls      \* history: the methods called on the scheme, in order

vars == <<prob, pc, exc, t, self, data, env, nsteps, accepted, asm, calls>>

\* the value a vector object holds now
Val(o, e) == IF o.ref = "none" THEN o.val ELSE e.vecs[o.ref][1]

\* ---------------------------------------------------- discretization terms
\* disc.matrix_rhs(...): the matrix a term returns for the data of time tm
TermLhs(term, tm) == R(term.lhs + term.ramp * tm)

\* the vector a term returns: the array it keeps, or a new array
TermRhs(term, tm, vec) ==
    IF term.stored THEN vec ELSE R(term.rhs + term.ramp * tm)

MatrixRhs(term, tm, vec) ==
    [lhs |-> TermLhs(term, tm), rhs |-> TermRhs(term, tm, vec)]

\* `if not isinstance(discs, tuple): discs = [discs]`
TermsOf(discs) == IF discs.kind = "tuple" THEN discs.terms ELSE <<discs.terms[1]>>

\* mutant: the vector of a later term is left out
AddPairMatrixOnly(acc, n) == [lhs |-> RAdd(acc.lhs, n.lhs), rhs |-> acc.rhs]

\* `lhs += lhs_n; rhs += rhs_n`
AddPair(acc, n) == [lhs |-> RAdd(acc.lhs, n.lhs), rhs |-> RAdd(acc.rhs, n.rhs)]

\* `for disc in discs[1:]: lhs_n, rhs_n = disc.matrix_rhs(...); ...`
RECURSIVE Accumulate(_, _, _, _, _)
Accumulate(ts, i, tm, vecs, acc) ==
    IF i > Len(ts) THEN acc
    ELSE Accumulate(ts, i + 1, tm, vecs, AddPair(acc, MatrixRhs(ts[i], tm, vecs[i])))

\* `lhs, rhs = discs[0].matrix_rhs(...)` and the loop
SumOf(ts, tm, vecs) == Accumulate(ts, 2, tm, vecs, MatrixRhs(ts[1], tm, vecs[1]))

\* `return lhs, rhs`.  lhs is a sparse matrix: `lhs += lhs_n` rebinds lhs.
\* rhs is an array: `rhs += rhs_n` adds in place, into the array the first
\* term returned, so the array a term keeps has changed too.  val is the
\* value of rhs at the return (history).
Returned(name, e, first, sum) ==
    [ok |-> TRUE,
     lhs |-> sum.lhs,
     rhs |-> IF first.stored THEN Stored(name) ELSE Fresh(sum.rhs),
     val |-> sum.rhs,
     env |-> IF first.stored THEN [e EXCEPT !.vecs[name][1] = sum.rhs] ELSE e]

\* reading self.data before AbstractSolver.__init__ has set it
NoData(e) == [ok |-> FALSE, lhs |-> None, rhs |-> None, val |-> None, env |-> e]

\* AbstractSolver._discretize of solver s on the terms `discs` (the space or
\* the time terms, by name)
discretize(s, discs, name, e) ==
    IF s.g = "bucket"
    THEN Returned(name, e, TermsOf(discs)[1],
                  SumOf(TermsOf(discs), e.time, e.vecs[name]))
    ELSE IF s.has_data
         THEN Returned(name, e, TermsOf(discs)[1],
                       SumOf(TermsOf(discs), e.time, e.vecs[name]))
         ELSE NoData(e)

\* ------------------------------------------------------------ construction
NoObject ==
    [cls |-> None, g |-> None, has_data |-> FALSE, dt |-> None, T |-> None,
     space_disc |-> None, time_disc |-> None,
     p |-> None, p0 |-> None, p_1 |-> None, flag_first |-> None,
     lhs |-> None, rhs |-> None,
     lhs_flux |-> None, rhs_flux |-> None, lhs_time |-> None, rhs_time |-> None,
     lhs_flux_0 |-> None, rhs_flux_0 |-> None,
     lhs_time_0 |-> None, rhs_time_0 |-> None,
     store_results |-> None]

\* the pairs an assembly returned, as values (history)
Pairs(f, tm) ==
    [lhs_flux |-> f.lhs, rhs_flux |-> f.val, lhs_time |-> tm.lhs, rhs_time |-> tm.val]

\* AbstractSolver.__init__
AbstractInit(w, problem) ==
    [w EXCEPT !.data = [physics |-> <<>>, times |-> <<>>],
              !.self.g = problem.g,
              !.self.has_data = TRUE,
              !.self.dt = problem.dt,
              !.self.T = problem.T,
              !.self.space_disc = problem.space_disc,
              !.self.time_disc = problem.time_disc,
              !.self.p0 = R(problem.p_init),
              !.self.p = R(problem.p_init),
              !.self.lhs = None,
              !.self.rhs = None,
              !.self.store_results = FALSE]

\* Implicit.__init__ and Explicit.__init__
PlainInit(w, problem) == [ok |-> TRUE, w |-> AbstractInit(w, problem)]

\* BDF2.__init__
BDF2Init(w, problem) ==
    [ok |-> TRUE,
     w |-> [AbstractInit([w EXCEPT !.self.flag_first = TRUE], problem)
               EXCEPT !.self.p_1 = R(problem.p_init)]]

\* the space and the time assembly, one after the other
AssembleTime(s, discs, f) == [f |-> f, tm |-> discretize(s, discs, "time", f.env)]
Assemble(s, space_disc, time_disc, e) ==
    AssembleTime(s, time_disc, discretize(s, space_disc, "space", e))

\* CrankNicolson.__init__
CrankNicolsonCache(w, problem, a) ==
    IF a.f.ok /\ a.tm.ok
    THEN [ok |-> TRUE,
          w |-> AbstractInit(
                  [w EXCEPT
                     !.env = a.tm.env,
                     !.last = Pairs(a.f, a.tm),
                     !.self.g = problem.g,
                     !.self.lhs_flux = a.f.lhs, !.self.rhs_flux = a.f.rhs,
                     !.self.lhs_time = a.tm.lhs, !.self.rhs_time = a.tm.rhs,
                     !.self.lhs_flux_0 = a.f.lhs, !.self.rhs_flux_0 = a.f.rhs,
                     !.self.lhs_time_0 = a.tm.lhs, !.self.rhs_time_0 = a.tm.rhs],
                  problem)]
    ELSE [ok |-> FALSE, w |-> [w EXCEPT !.self.g = problem.g]]

CrankNicolsonInit(w, problem) ==
    CrankNicolsonCache(w, problem,
        Assemble([w.self EXCEPT !.g = problem.g],
                 problem.space_disc, problem.time_disc, w.env))

\* ------------------------------------------------------------ update(t)
\* mutant: update() logs the state and forgets the time
AbstractUpdateNoTimes(w, tt) ==
    [w EXCEPT
       !.env.time = tt,
       !.self.p0 = w.self.p,
       !.data = IF w.self.store_results = TRUE
                THEN [physics |-> Append(w.data.physics, w.self.p),
                      times |-> w.data.times]
                ELSE w.data]

\* mutant: update() logs whatever store_results is
AbstractUpdateAlways(w, tt) ==
    [w EXCEPT
       !.env.time = tt,
       !.self.p0 = w.self.p,
       !.data = [physics |-> Append(w.data.physics, w.self.p),
                 times |-> Append(w.data.times, tt - w.self.dt)]]

\* mutant: update() does not roll p0 forward
AbstractUpdateKeepsP0(w, tt) ==
    [w EXCEPT
       !.env.time = tt,
       !.data = IF w.self.store_results = TRUE
                THEN [physics |-> Append(w.data.physics, w.self.p),
                      times |-> Append(w.data.times, tt - w.self.dt)]
                ELSE w.data]

\* mutant: update() starts the logs anew
AbstractUpdateRestarts(w, tt) ==
    [w EXCEPT
       !.env.time = tt,
       !.self.p0 = w.self.p,
       !.data = IF w.self.store_results = TRUE
                THEN [physics |-> <<w.self.p>>, times |-> <<tt - w.self.dt>>]
                ELSE w.data]

\* AbstractSolver.update
AbstractUpdate(w, tt) ==
    [w EXCEPT
       !.env.time = tt,
       !.self.p0 = w.self.p,
       !.data = IF w.self.store_results = TRUE
                THEN [physics |-> Append(w.data.physics, w.self.p),
                      times |-> Append(w.data.times, tt - w.self.dt)]
                ELSE w.data]

\* mutant: the tolerance of the first-step test has the wrong sign
BDF2UpdateEarly(w, tt) ==
    AbstractUpdate(
        [w EXCEPT !.self.flag_first = IF tt > w.self.dt - Eps6 THEN FALSE ELSE TRUE,
                  !.self.p_1 = w.self.p0],
        tt)

\* mutant: p_1 is taken from p, after the roll, not from the previous p0
BDF2UpdateLate(w, tt) ==
    AbstractUpdate(
        [w EXCEPT !.self.flag_first = IF tt > w.self.dt + Eps6 THEN FALSE ELSE TRUE,
                  !.self.p_1 = w.self.p],
        tt)

\* BDF2.update
BDF2Update(w, tt) ==
    AbstractUpdate(
        [w EXCEPT !.self.flag_first = IF tt > w.self.dt + Eps6 THEN FALSE ELSE TRUE,
                  !.self.p_1 = w.self.p0],
        tt)

\* CrankNicolson.update: the statements after AbstractSolver.update
CrankNicolsonRoll(w) ==
    [w EXCEPT
       !.self.lhs_flux_0 = w.self.lhs_flux,
       !.self.rhs_flux_0 = w.self.rhs_flux,
       !.self.lhs_time_0 = w.self.lhs_time,
       !.self.rhs_time_0 = w.self.rhs_time]

\* CrankNicolson.update
CrankNicolsonUpdate(w, tt) == CrankNicolsonRoll(AbstractUpdate(w, tt))

\* self.update(t), by the class of self
update(w, tt) ==
    CASE w.self.cls = "BDF2" -> BDF2Update(w, tt)
      [] w.self.cls = "CrankNicolson" -> CrankNicolsonUpdate(w, tt)
      [] OTHER -> AbstractUpdate(w, tt)

\* ------------------------------------------------------------ reassemble()
\* the locals lhs_flux, rhs_flux, lhs_time, rhs_time of reassemble()
Locals(a) ==
    [lhs_flux |-> a.f.lhs, rhs_flux |-> Val(a.f.rhs, a.tm.env),
     lhs_time |-> a.tm.lhs, rhs_time |-> Val(a.tm.rhs, a.tm.env)]

\* self.lhs = ...; self.rhs = ...
Assign(w, a, sys) ==
    [w EXCEPT
       !.env = a.tm.env,
       !.last = Pairs(a.f, a.tm),
       !.self.lhs = sys.lhs,
       !.self.rhs = sys.rhs]

\* mutant: the previous state enters rhs without the mass matrix
ImplicitSystemNoMass(v, s) ==
    [lhs |-> RAdd(v.lhs_time, v.lhs_flux),
     rhs |-> RAdd(RAdd(s.p0, v.rhs_flux), v.rhs_time)]

\* Implicit.reassemble: the system
ImplicitSystem(v, s) ==
    [lhs |-> RAdd(v.lhs_time, v.lhs_flux),
     rhs |-> RAdd(RAdd(RMul(v.lhs_time, s.p0), v.rhs_flux), v.rhs_time)]

\* Implicit.reassemble
ImplicitReassemble(w, a) == Assign(w, a, ImplicitSystem(Locals(a), w.self))

\* BDF2.reassemble: the system
BDF2System(v, s) ==
    IF s.flag_first
    THEN [lhs |-> RAdd(v.lhs_time, v.lhs_flux),
          rhs |-> RAdd(RAdd(RMul(v.lhs_time, s.p0), v.rhs_flux), v.rhs_time)]
    ELSE [lhs |-> RAdd(v.lhs_time, RMul(TwoThirds, v.lhs_flux)),
          rhs |-> RAdd(RAdd(RSub(RMul(RMul(FourThirds, v.lhs_time), s.p0),
                                 RMul(RMul(OneThird, v.lhs_time), s.p_1)),
                            RMul(TwoThirds, v.rhs_flux)),
                       v.rhs_time)]

\* BDF2.reassemble
BDF2Reassemble(w, a) == Assign(w, a, BDF2System(Locals(a), w.self))

\* mutant: the flux matrix enters rhs with the wrong sign
ExplicitSystemPlus(v, s) ==
    [lhs |-> v.lhs_time,
     rhs |-> RAdd(RAdd(RMul(RAdd(v.lhs_time, v.lhs_flux), s.p0), v.rhs_flux),
                  v.rhs_time)]

\* Explicit.reassemble: the system
ExplicitSystem(v, s) ==
    [lhs |-> v.lhs_time,
     rhs |-> RAdd(RAdd(RMul(RSub(v.lhs_time, v.lhs_flux), s.p0), v.rhs_flux),
                  v.rhs_time)]

\* Explicit.reassemble
ExplicitReassemble(w, a) == Assign(w, a, ExplicitSystem(Locals(a), w.self))

\* CrankNicolson.reassemble: self.lhs_flux, self.rhs_flux = ...; the same for time
CrankNicolsonKeep(s, a) ==
    [s EXCEPT !.lhs_flux = a.f.lhs, !.rhs_flux = a.f.rhs,
              !.lhs_time = a.tm.lhs, !.rhs_time = a.tm.rhs]

\* mutant: the factor 0.5 is applied to the mass matrix too
CrankNicolsonSystemHalved(s, e) ==
    [lhs |-> RAdd(s.lhs_time, RMul(Half, s.lhs_flux)),
     rhs |-> RAdd(RAdd(RMul(RMul(Half, RSub(s.lhs_time, s.lhs_flux_0)), s.p0),
                       RMul(Half, RAdd(Val(s.rhs_flux, e), Val(s.rhs_time, e)))),
                  RMul(Half, RAdd(Val(s.rhs_flux_0, e), Val(s.rhs_time_0, e))))]

\* CrankNicolson.reassemble: the system, read from the attributes of self
CrankNicolsonSystem(s, e) ==
    [lhs |-> RAdd(s.lhs_time, RMul(Half, s.lhs_flux)),
     rhs |-> RAdd(RAdd(RMul(RSub(s.lhs_time, RMul(Half, s.lhs_flux_0)), s.p0),
                       RMul(Half, RAdd(Val(s.rhs_flux, e), Val(s.rhs_time, e)))),
                  RMul(Half, RAdd(Val(s.rhs_flux_0, e), Val(s.rhs_time_0, e))))]

\* CrankNicolson.reassemble
CrankNicolsonReassemble(w, a) ==
    Assign([w EXCEPT !.self = CrankNicolsonKeep(w.self, a)], a,
           CrankNicolsonSystem(CrankNicolsonKeep(w.self, a), a.tm.env))

\* self.reassemble() of a scheme, by the class of self
reassembleWith(w, a) ==
    CASE w.self.cls = "Implicit" -> ImplicitReassemble(w, a)
      [] w.self.cls = "BDF2" -> BDF2Reassemble(w, a)
      [] w.self.cls = "Explicit" -> ExplicitReassemble(w, a)
      [] w.self.cls = "CrankNicolson" -> CrankNicolsonReassemble(w, a)

reassemble(w) ==
    reassembleWith(w, Assemble(w.self, w.self.space_disc, w.self.time_disc, w.env))

\* ------------------------------------------------------------------ step()
\* AbstractSolver.step: spsolve(self.lhs, self.rhs)
step(w) == [w EXCEPT !.self.p = RDiv(w.self.rhs, w.self.lhs)]

\* ------------------------------------------------------- the loops of solve()
\* the double `x + 1e-14`, in half units: from 128 s on the sum rounds to x
\* itself; below, it is a double above x and below every time x + 5e-7
PlusEps(x) == IF x >= Absorb THEN 2 * x ELSE 2 * x + 1

\* AbstractSolver.solve: `while t < self.T + 1e-14`
AbstractLoopTest(s, tt) == 2 * tt < PlusEps(s.T)

\* Explicit.solve: `while t < self.T - self.dt + 1e-14`
ExplicitLoopTest(s, tt) == 2 * tt < PlusEps(s.T - s.dt)

LoopTest(s, tt) ==
    IF s.cls = "Explicit" THEN ExplicitLoopTest(s, tt) ELSE AbstractLoopTest(s, tt)

\* mutant: Explicit starts at t = dt as AbstractSolver.solve does
FirstTimeDt(s) == s.dt

\* the first t of the loop: `t = self.dt`, and in Explicit.solve `t = 0.0`
FirstTime(s) == IF s.cls = "Explicit" THEN 0 ELSE s.dt

\* the constructor of the class
construct(w, problem) ==
    CASE problem.cls = "BDF2" -> BDF2Init(w, problem)
      [] problem.cls = "CrankNicolson" -> CrankNicolsonInit(w, problem)
      [] OTHER -> PlainInit(w, problem)

\* ------------------------------------------------------------ the problems
Classes == {"AbstractSolver", "Implicit", "BDF2", "Explicit", "CrankNicolson"}
Grids == {"grid", "bucket"}

Term(a, b, r, st) == [lhs |-> a, rhs |-> b, ramp |-> r, stored |-> st]
One(x) == [kind |-> "term", terms |-> <<x>>]
Tuple(xs) == [kind |-> "tuple", terms |-> xs]

\* space terms: constant or growing with the time of the data, new arrays or
\* a kept array; alone or followed by a second term
SpaceFirst ==
    {Term(0, 0, 0, FALSE), Term(1, 0, 0, FALSE), Term(1, 1, 0, FALSE),
     Term(1, 1, 1, FALSE), Term(1, 1, 0, TRUE)}
SpaceSecond == {Term(0, 0, 0, FALSE), Term(1, 1, 0, FALSE)}
SpaceDiscs ==
    {One(x) : x \in SpaceFirst} \cup {Tuple(<<x, y>>) : x \in SpaceFirst, y \in SpaceSecond}

\* time (mass) terms: an invertible matrix
TimeDiscs == {One(Term(1, 0, 0, FALSE)), One(Term(2, 0, 0, FALSE)), One(Term(1, 1, 0, FALSE))}

\* dt: below, at and above the tolerance 1e-6 of BDF2.update
DtSet == {1, 2, 3}

BroadProblems ==
    {[cls |-> c, g |-> g, space_disc |-> sd, time_disc |-> td,
      dt |-> d, T |-> e, p_init |-> q] :
        c \in Classes, g \in Grids, sd \in SpaceDiscs, td \in TimeDiscs,
        d \in DtSet, e \in 0..(MaxSteps * 3), q \in {1, 2}}

\* dp/dt = -lambda p on one degree of freedom: lhs_M = 1, lhs_A = lambda dt,
\* zero right-hand sides
DecayProblems ==
    {[cls |-> c, g |-> g, space_disc |-> One(Term(l, 0, 0, FALSE)),
      time_disc |-> One(Term(1, 0, 0, FALSE)),
      dt |-> 1, T |-> e, p_init |-> 1] :
        c \in {"Implicit", "Explicit", "CrankNicolson"}, g \in Grids,
        l \in {1, 2, 3}, e \in {LongSteps, LongSteps + 1}}

\* whole seconds: dt = 64 s and T = 0 s, 32 s, 64 s, ...
SecondsProblems ==
    {[cls |-> c, g |-> g, space_disc |-> One(Term(a, 1, 0, FALSE)),
      time_disc |-> One(Term(1, 0, 0, FALSE)),
      dt |-> 64 * Second, T |-> k * 32 * Second, p_init |-> 1] :
        c \in Classes, g \in Grids, a \in {0, 1}, k \in 0..(2 * MaxSteps)}

Problems ==
    {q \in BroadProblems : q.T <= MaxSteps * q.dt}
        \cup DecayProblems \cup SecondsProblems

StoredVecs(discs) == [i \in 1..Len(discs.terms) |-> R(discs.terms[i].rhs)]

\* ------------------------------------------------------------------ state
World == [self |-> self, data |-> data, env |-> env, last |-> None]

Init ==
    /\ prob \in Problems
    /\ pc = "init"
    /\ exc = "none"
    /\ t = 0
    /\ self = [NoObject EXCEPT !.cls = prob.cls]
    /\ data = [physics |-> None, times |-> None]
    /\ env = [time |-> 0,
              vecs |-> [space |-> StoredVecs(prob.space_disc),
                        time |-> StoredVecs(prob.time_disc)]]
    /\ nsteps = 0
    /\ accepted = <<>>
    /\ asm = <<>>
    /\ calls = <<>>

\* a method is called, at the time t
Called(op, tt) == calls' = Append(calls, [op |-> op, t |-> tt])

\* the solver object, the logs and the collaborators after a call
Commit(w) ==
    /\ self' = w.self
    /\ data' = w.data
    /\ env' = w.env

Constructed(r) ==
    /\ Commit(r.w)
    /\ IF r.ok
       THEN /\ pc' = "ready"
            /\ exc' = exc
            /\ accepted' = <<r.w.self.p>>
            /\ asm' = IF r.w.last = None THEN <<>> ELSE <<r.w.last>>
       ELSE /\ pc' = "raised"
            /\ exc' = "AttributeError"
            /\ UNCHANGED <<accepted, asm>>

\* solver = Cls(problem)
Construct ==
    /\ pc = "init"
    /\ Constructed(construct(World, prob))
    /\ UNCHANGED <<prob, t, nsteps, calls>>

\* solver.parameters['store_results'] = True
SetStoreResults ==
    /\ pc = "ready"
    /\ self.store_results = FALSE
    /\ self' = [self EXCEPT !.store_results = TRUE]
    /\ UNCHANGED <<prob, pc, exc, t, data, env, nsteps, accepted, asm, calls>>

\* solve(): the statement before the loop
SolveStart ==
    /\ pc = "ready"
    /\ t' = FirstTime(self)
    /\ pc' = "loop"
    /\ UNCHANGED <<prob, exc, self, data, env, nsteps, accepted, asm, calls>>

\* solve(): the loop test holds, self.update(t)
LoopUpdate ==
    /\ pc = "loop"
    /\ LoopTest(self, t)
    /\ Commit(update(World, t))
    /\ pc' = "reassemble"
    /\ UNCHANGED <<prob, exc, t, nsteps, accepted, asm>>
    /\ Called("update", t)

Reassembled(w) ==
    /\ Commit(w)
    /\ asm' = Append(asm, w.last)

\* solve(): self.reassemble() of a scheme
Reassemble ==
    /\ pc = "reassemble"
    /\ self.cls # "AbstractSolver"
    /\ Reassembled(reassemble(World))
    /\ pc' = "step"
    /\ UNCHANGED <<prob, exc, t, nsteps, accepted>>
    /\ Called("reassemble", t)

\* mutant: the base reassemble() fails with another error
ReassembleRaisesAttribute ==
    /\ pc = "reassemble"
    /\ self.cls = "AbstractSolver"
    /\ pc' = "raised"
    /\ exc' = "AttributeError"
    /\ UNCHANGED <<prob, t, self, data, env, nsteps, accepted, asm>>
    /\ Called("reassemble", t)

\* solve(): self.reassemble() of AbstractSolver raises NotImplementedError
ReassembleRaises ==
    /\ pc = "reassemble"
    /\ self.cls = "AbstractSolver"
    /\ pc' = "raised"
    /\ exc' = "NotImplementedError"
    /\ UNCHANGED <<prob, t, self, data, env, nsteps, accepted, asm>>
    /\ Called("reassemble", t)

Stepped(w) ==
    /\ Commit(w)
    /\ accepted' = Append(accepted, w.self.p)

\* solve(): self.step(); t += self.dt
Step ==
    /\ pc = "step"
    /\ Stepped(step(World))
    /\ nsteps' = nsteps + 1
    /\ t' = t + self.dt
    /\ pc' = "loop"
    /\ UNCHANGED <<prob, exc, asm>>
    /\ Called("step", t)

\* AbstractSolver.solve(): the loop test fails, self.update(t), return
FinalUpdate ==
    /\ pc = "loop"
    /\ self.cls # "Explicit"
    /\ ~LoopTest(self, t)
    /\ Commit(update(World, t))
    /\ pc' = "done"
    /\ UNCHANGED <<prob, exc, t, nsteps, accepted, asm>>
    /\ Called("update", t)

\* Explicit.solve(): the loop test fails, return
ExplicitReturn ==
    /\ pc = "loop"
    /\ self.cls = "Explicit"
    /\ ~LoopTest(self, t)
    /\ pc' = "done"
    /\ UNCHANGED <<prob, exc, t, self, data, env, nsteps, accepted, asm, calls>>

Next ==
    \/ Construct
    \/ SetStoreResults
    \/ SolveStart
    \/ LoopUpdate
    \/ Reassemble
    \/ ReassembleRaises
    \/ Step
    \/ FinalUpdate
    \/ ExplicitReturn

Spec == Init /\ [][Next]_vars

\* ------------------------------------------------------------ the claims
\* the pairs the latest assembly returned, and those of the assembly before
Cur == asm[Len(asm)]
Old == asm[Len(asm) - 1]

\* in a state where step n is under way: the state accepted at step n-1 (the
\* initial condition for n = 1), and the one accepted at step n-2 (the
\* initial condition for n <= 2)
AcceptedBefore == accepted[nsteps + 1]
AcceptedTwoBefore == accepted[IF nsteps = 0 THEN 1 ELSE nsteps]

\* lambda dt of a decay problem
LambdaDt == prob.space_disc.terms[1].lhs

\* the system formed by reassemble() is in self.lhs, self.rhs and step() is next
AtStep(cls) == pc = "step" /\ prob.cls = cls

\* C1: the system Implicit hands to step() at step n is lhs = lhs_M + lhs_A,
\* rhs = lhs_M p0 + rhs_A + rhs_M with p0 the state accepted at step n-1; on
\* the decay problem every step taken satisfies (1 + lambda dt) p_n = p_{n-1}.
C1_ImplicitSystem ==
    /\ AtStep("Implicit") =>
         /\ self.lhs = RAdd(Cur.lhs_time, Cur.lhs_flux)
         /\ self.rhs = RAdd(RAdd(RMul(Cur.lhs_time, AcceptedBefore), Cur.rhs_flux),
                            Cur.rhs_time)
    /\ (prob.cls = "Implicit" /\ prob \in DecayProblems) =>
         \A k \in 1..nsteps :
            RMul(R(1 + LambdaDt), accepted[k + 1]) = accepted[k]

\* ten steps of Implicit on the decay problem are done and the eleventh system is formed
C1_Witness ==
    /\ AtStep("Implicit")
    /\ prob \in DecayProblems
    /\ nsteps >= 10

\* C2: only the first step of BDF2 is assembled with the Implicit formula,
\* every later step with the BDF2 formula on the states accepted one and two
\* steps before, for every dt > 0.
C2_BDF2LaterSteps ==
    AtStep("BDF2") =>
        IF nsteps = 0
        THEN /\ self.lhs = RAdd(Cur.lhs_time, Cur.lhs_flux)
             /\ self.rhs = RAdd(RAdd(RMul(Cur.lhs_time, AcceptedBefore), Cur.rhs_flux),
                                Cur.rhs_time)
        ELSE /\ self.lhs = RAdd(Cur.lhs_time, RMul(TwoThirds, Cur.lhs_flux))
             /\ self.rhs =
                  RAdd(RAdd(RSub(RMul(RMul(FourThirds, Cur.lhs_time), AcceptedBefore),
                                 RMul(RMul(OneThird, Cur.lhs_time), AcceptedTwoBefore)),
                            RMul(TwoThirds, Cur.rhs_flux)),
                       Cur.rhs_time)

\* the first step of Implicit on a problem, computed from the problem alone
World0(problem) ==
    [self |-> [NoObject EXCEPT !.cls = "Implicit"],
     data |-> [physics |-> None, times |-> None],
     env |-> [time |-> 0,
              vecs |-> [space |-> StoredVecs(problem.space_disc),
                        time |-> StoredVecs(problem.time_disc)]],
     last |-> None]
ImplicitReassembleOf(w) ==
    ImplicitReassemble(w, Assemble(w.self, w.self.space_disc, w.self.time_disc, w.env))
ImplicitFirstStep(problem) ==
    step(ImplicitReassembleOf(
            AbstractUpdate(PlainInit(World0(problem), problem).w, problem.dt))).self

SameSystem(s, r) == s.lhs = r.lhs /\ s.rhs = r.rhs /\ s.p = r.p

\* C3: the lhs, rhs and resulting state of the first step of BDF2 equal
\* those of the first step of Implicit on the same problem.
C3_BootstrapEquivalence ==
    (prob.cls = "BDF2" /\ pc = "loop" /\ nsteps = 1) =>
        SameSystem(self, ImplicitFirstStep(prob))

\* BDF2 has taken its first step on a problem with a space operator
C3_Witness ==
    /\ prob.cls = "BDF2" /\ pc = "loop" /\ nsteps = 1
    /\ Cur.lhs_flux # R(0)
    /\ self.p # R(prob.p_init)

C5_CrankNicolsonSystem ==
    AtStep("CrankNicolson") =>
        /\ self.lhs_flux_0 = Old.lhs_flux
        /\ Val(self.rhs_flux_0, env) = Old.rhs_flux
        /\ self.lhs_time_0 = Old.lhs_time
        /\ Val(self.rhs_time_0, env) = Old.rhs_time
        /\ self.p0 = AcceptedBefore
        /\ self.lhs = RAdd(Cur.lhs_time, RMul(Half, Cur.lhs_flux))
        /\ self.rhs =
             RAdd(RAdd(RMul(RSub(Cur.lhs_time, RMul(Half, Old.lhs_flux)), AcceptedBefore),
                       RMul(Half, RAdd(Cur.rhs_flux, Cur.rhs_time))),
                  RMul(Half, RAdd(Old.rhs_flux, Old.rhs_time)))

\* solve() is about to call update(t): in the loop, or after it in AbstractSolver.solve
AtUpdateStart == pc = "loop" /\ (LoopTest(self, t) \/ prob.cls # "Explicit")

\* update(t) has returned to solve()
AtUpdateEnd == pc = "reassemble" \/ (pc = "done" /\ prob.cls # "Explicit")

\* p0 is the solution accepted at the end of the previous step and, for BDF2,
\* p_1 the solution accepted two steps prior (the initial condition if none)
HistoryWindow ==
    /\ self.p0 = AcceptedBefore
    /\ prob.cls = "BDF2" => self.p_1 = AcceptedTwoBefore

\* C6 as stated: the history window holds at the start of every update(t)
\* call made by solve().
C6_WindowAtUpdateStart == AtUpdateStart => HistoryWindow

\* C6: the history window holds at the end of every update(t) call made by
\* solve(), when reassemble() starts.
C6_WindowAtUpdateEnd == AtUpdateEnd => HistoryWindow

\* BDF2 has rolled a window of three different states
C6_Witness ==
    /\ pc = "reassemble" /\ prob.cls = "BDF2" /\ nsteps >= 2
    /\ self.p0 # self.p_1
    /\ accepted[nsteps] # accepted[nsteps - 1]

\* solve() has returned and results were stored
DoneStored == pc = "done" /\ self.store_results = TRUE

\* C7 as stated: for every scheme the number of recorded entries equals the
\* number of steps taken.
C7_EntriesEqualSteps ==
    DoneStored => Len(data.physics) = nsteps /\ Len(data.times) = nsteps

\* C7: the number of recorded entries equals the number of steps taken for
\* Explicit, and the number of steps taken plus one for Implicit, BDF2 and
\* Crank-Nicolson.
C7_EntriesAndSteps ==
    DoneStored =>
        /\ Len(data.physics) = nsteps + (IF prob.cls = "Explicit" THEN 0 ELSE 1)
        /\ Len(data.times) = Len(data.physics)

C7_Witness == DoneStored /\ nsteps >= 2 /\ prob.cls = "CrankNicolson"

\* T = N dt with N >= 1
ExactMultiple == prob.T >= prob.dt /\ prob.T % prob.dt = 0

\* C8: when T = N dt, N >= 1, Explicit.solve() executes exactly
\* N = floor(T / dt) steps.
C8_ExplicitStepCount ==
    (pc = "done" /\ prob.cls = "Explicit" /\ ExactMultiple) =>
        nsteps = prob.T \div prob.dt

\* the step count of Explicit.solve() is N as long as the bound T - dt of its
\* loop is below 128 s
ExplicitStepCountBelowAbsorb ==
    (pc = "done" /\ prob.cls = "Explicit" /\ ExactMultiple
        /\ prob.T - prob.dt < Absorb) =>
        nsteps = prob.T \div prob.dt

\* the number of iterations of the loop of AbstractSolver.solve from t on
RECURSIVE AbstractLoopCount(_, _)
AbstractLoopCount(s, tt) ==
    IF AbstractLoopTest(s, tt) THEN 1 + AbstractLoopCount(s, tt + s.dt) ELSE 0

\* the number of steps Implicit takes for the T and dt of the problem
ImplicitSteps == AbstractLoopCount([T |-> prob.T, dt |-> prob.dt], prob.dt)

\* the loop of AbstractSolver.solve, as Implicit runs it, takes ImplicitSteps steps
ImplicitCounted ==
    (pc = "done" /\ prob.cls = "Implicit") => nsteps = ImplicitSteps

\* C9 as stated: for T an exact multiple of dt, Explicit.solve() executes
\* one step fewer than the loop of Implicit.
C9_ExplicitOneFewer ==
    /\ ImplicitCounted
    /\ (pc = "done" /\ prob.cls = "Explicit" /\ ExactMultiple) =>
          nsteps = ImplicitSteps - 1

\* the 1e-14 is lost in the bound T of the loop of Implicit and kept in the
\* bound T - dt of the loop of Explicit
OneMore == prob.T >= Absorb /\ prob.T - prob.dt < Absorb

\* C9: for T an exact multiple of dt, Explicit.solve() executes exactly as
\* many steps as the loop of Implicit, and one step more when
\* T >= 128 s > T - dt; the two counts never differ by more than one.
C9_ExplicitSameCount ==
    /\ ImplicitCounted
    /\ (pc = "done" /\ prob.cls = "Explicit" /\ ExactMultiple) =>
          nsteps = ImplicitSteps + (IF OneMore THEN 1 ELSE 0)

C9_Witness ==
    pc = "done" /\ prob.cls = "Explicit" /\ ExactMultiple /\ nsteps = 3 /\ ImplicitSteps = 3

\* zero space operator and zero right-hand sides, invertible mass matrix
ZeroTerm(x) == x.lhs = 0 /\ x.rhs = 0 /\ x.ramp = 0
ZeroProblem ==
    /\ \A i \in 1..Len(prob.space_disc.terms) : ZeroTerm(prob.space_disc.terms[i])
    /\ \A i \in 1..Len(prob.time_disc.terms) :
          /\ prob.time_disc.terms[i].rhs = 0
          /\ prob.time_disc.terms[i].ramp = 0
          /\ prob.time_disc.terms[i].lhs # 0

\* C10: with A = 0 and zero right-hand sides every state recorded by
\* Implicit, Explicit and Crank-Nicolson equals the initial condition.
C10_ConstantState ==
    (prob.cls \in {"Implicit", "Explicit", "CrankNicolson"} /\ ZeroProblem) =>
        \A i \in 1..Len(data.physics) : data.physics[i] = R(prob.p_init)

C10_Witness ==
    /\ prob.cls = "CrankNicolson" /\ ZeroProblem
    /\ prob.time_disc.terms[1].lhs = 2
    /\ nsteps >= 2
    /\ Len(data.physics) >= 3

\* the loop of AbstractSolver.solve runs at least once: its test holds at t = dt
LoopEntered == AbstractLoopTest(prob, prob.dt)

\* C11 as stated: solve() of the base AbstractSolver never executes step()
\* and never returns normally, for every T and dt.
C11_NeverReturns ==
    prob.cls = "AbstractSolver" => (pc # "step" /\ pc # "done" /\ nsteps = 0)

\* C11: solve() of the base AbstractSolver never executes step(); it ends in
\* NotImplementedError, and in no other error, exactly when the loop test
\* holds at t = dt, and returns normally only when the loop runs zero times.
C11_RaisesWhenLoopEntered ==
    prob.cls = "AbstractSolver" =>
        /\ pc # "step" /\ nsteps = 0
        /\ pc = "raised" => (exc = "NotImplementedError" /\ LoopEntered)
        /\ pc = "done" => ~LoopEntered
        /\ (pc = "reassemble" \/ pc = "raised") => self.p0 = R(prob.p_init)

\* the first reassemble() of the base class has raised, with T several steps away
C11_Witness ==
    /\ prob.cls = "AbstractSolver" /\ pc = "raised"
    /\ exc = "NotImplementedError" /\ prob.T >= 2 * prob.dt

\* the pair the terms `discs` give for the initial state, at time 0
InitialPair(discs) == SumOf(TermsOf(discs), 0, StoredVecs(discs))

\* the `*_0` caches of Crank-Nicolson hold the pairs of the initial state
CachesInitial ==
    /\ self.lhs_flux_0 = InitialPair(prob.space_disc).lhs
    /\ Val(self.rhs_flux_0, env) = InitialPair(prob.space_disc).rhs
    /\ self.lhs_time_0 = InitialPair(prob.time_disc).lhs
    /\ Val(self.rhs_time_0, env) = InitialPair(prob.time_disc).rhs
    /\ Len(asm) = 1

\* C12: constructing a Crank-Nicolson scheme succeeds on a single mesh and on
\* a mixed-dimensional aggregate and, before any step, leaves the `*_0` flux
\* and time caches equal to the pairs assembled once from the initial state.
C12_CrankNicolsonConstructed ==
    prob.cls = "CrankNicolson" =>
        /\ pc # "init" => exc = "none"
        /\ pc = "ready" => CachesInitial

\* on a mixed-dimensional aggregate the construction succeeds and fills the caches
CrankNicolsonOnBucket ==
    (prob.cls = "CrankNicolson" /\ prob.g = "bucket") =>
        /\ pc # "init" => exc = "none"
        /\ pc = "ready" => CachesInitial

\* ------------------------------------------------- _discretize called alone
\* terms handed to _discretize: new arrays or a kept array, constant or
\* changing with the data
DiscTerms ==
    {Term(0, 0, 0, FALSE), Term(1, 1, 0, FALSE), Term(2, 3, 1, FALSE),
     Term(1, 2, 0, TRUE)}

\* one term, or a tuple of one, two or three terms
DiscInputs ==
    {One(x) : x \in DiscTerms}
        \cup {Tuple(<<x>>) : x \in DiscTerms}
        \cup {Tuple(<<x, y>>) : x \in DiscTerms, y \in DiscTerms}
        \cup {Tuple(<<x, y, z>>) : x \in DiscTerms, y \in DiscTerms, z \in DiscTerms}

DiscProblems ==
    {[cls |-> "Implicit", g |-> g, space_disc |-> sd,
      time_disc |-> One(Term(1, 0, 0, FALSE)), dt |-> 1, T |-> 0, p_init |-> 1] :
        g \in Grids, sd \in DiscInputs}

\* a constructed scheme whose _discretize is about to be called
DiscInit ==
    /\ prob \in DiscProblems
    /\ pc = "disc"
    /\ exc = "none"
    /\ t = 0
    /\ self = PlainInit(World0(prob), prob).w.self
    /\ data = PlainInit(World0(prob), prob).w.data
    /\ env = PlainInit(World0(prob), prob).w.env
    /\ nsteps = 0
    /\ accepted = <<>>
    /\ asm = <<>>
    /\ calls = <<>>

\* the pairs the terms return when asked now, one by one
TermPairs(discs, e) ==
    [i \in 1..Len(TermsOf(discs)) |->
        MatrixRhs(TermsOf(discs)[i], e.time, e.vecs.space[i])]

\* a call of _discretize and what it returned (history)
CallRecord(e, discs, r) ==
    [time |-> e.time, terms |-> TermPairs(discs, e), lhs |-> r.lhs, rhs |-> r.val]

DiscretizeReturns(r) ==
    /\ env' = r.env
    /\ asm' = Append(asm, CallRecord(env, prob.space_disc, r))

\* self._discretize(discs)
CallDiscretize ==
    /\ pc = "disc"
    /\ Len(asm) < MaxCalls
    /\ DiscretizeReturns(discretize(self, prob.space_disc, "space", env))
    /\ UNCHANGED <<prob, pc, exc, t, self, data, nsteps, accepted, calls>>

\* problem.update(t): the data the terms read are those of another time
DataChange ==
    /\ pc = "disc"
    /\ \E tt \in {0, 1} :
          /\ tt # env.time
          /\ env' = [env EXCEPT !.time = tt]
    /\ UNCHANGED <<prob, pc, exc, t, self, data, nsteps, accepted, asm, calls>>

DiscNext == CallDiscretize \/ DataChange

DiscSpec == DiscInit /\ [][DiscNext]_vars

\* the elementwise sum of a sequence of pairs, taken from the last to the first
RECURSIVE SumPairs(_, _)
SumPairs(ps, i) ==
    IF i = Len(ps) THEN ps[i]
    ELSE [lhs |-> RAdd(ps[i].lhs, SumPairs(ps, i + 1).lhs),
          rhs |-> RAdd(ps[i].rhs, SumPairs(ps, i + 1).rhs)]

\* what _discretize would return now for the terms ts with kept arrays vs
ResultOf(discs, vs) ==
    [lhs |-> discretize(self, discs, "space", [env EXCEPT !.vecs.space = vs]).lhs,
     rhs |-> discretize(self, discs, "space", [env EXCEPT !.vecs.space = vs]).val]

Permuted(xs, pi) == [i \in 1..Len(xs) |-> xs[pi[i]]]

C14_NoSideEffect ==
    pc = "disc" =>
        /\ env.vecs.space = StoredVecs(prob.space_disc)
        /\ \A i \in 1..Len(asm) : \A j \in 1..Len(asm) :
              asm[i].time = asm[j].time =>
                 (asm[i].lhs = asm[j].lhs /\ asm[i].rhs = asm[j].rhs)

\* no side effect when the first term returns a new array on every call
NoSideEffectFreshFirst ==
    (pc = "disc" /\ ~TermsOf(prob.space_disc)[1].stored) =>
        /\ env.vecs.space = StoredVecs(prob.space_disc)
        /\ \A i \in 1..Len(asm) : \A j \in 1..Len(asm) :
              asm[i].time = asm[j].time =>
                 (asm[i].lhs = asm[j].lhs /\ asm[i].rhs = asm[j].rhs)

\* both logs are empty
LogsEmpty == data.physics = <<>> /\ data.times = <<>>

\* the scheme is constructed and store_results was set to True
StoreOn == self.has_data /\ self.store_results = TRUE

\* C15: store_results is off after construction, and while it is off both
\* logs stay empty, after construction and through every solve().
C15_EmptyWhenDisabled ==
    /\ [](~StoreOn => LogsEmpty)
    /\ [][(pc = "init" /\ pc' = "ready") =>
             (self'.store_results = FALSE /\ data'.physics = <<>> /\ data'.times = <<>>)]_vars

\* Crank-Nicolson has returned from solve() after three steps, nothing stored
C15_Witness ==
    /\ pc = "done" /\ prob.cls = "CrankNicolson" /\ nsteps >= 3
    /\ self.store_results = FALSE /\ LogsEmpty
    /\ self.p # R(prob.p_init)

\* the calls of one iteration of a stepping loop, at the time tt
Iteration(tt) ==
    <<[op |-> "update", t |-> tt], [op |-> "reassemble", t |-> tt],
      [op |-> "step", t |-> tt]>>

\* n iterations at the times first, first + dt, ...
RECURSIVE Iterations(_, _, _)
Iterations(first, n, dt) ==
    IF n = 0 THEN <<>> ELSE Iteration(first) \o Iterations(first + dt, n - 1, dt)

\* the calls of the implicit family: iterations at t = dt, 2 dt, ... while
\* t <= T, then one update at the first t past T
ImplicitCalls ==
    Iterations(prob.dt, prob.T \div prob.dt, prob.dt)
        \o <<[op |-> "update", t |-> ((prob.T \div prob.dt) + 1) * prob.dt]>>

\* the calls of Explicit: iterations at t = 0, dt, ... while t <= T - dt
ExplicitCalls ==
    Iterations(0, IF prob.T < prob.dt THEN 0 ELSE prob.T \div prob.dt, prob.dt)

ExpectedCalls == IF prob.cls = "Explicit" THEN ExplicitCalls ELSE ImplicitCalls

IsPrefix(a, b) == Len(a) <= Len(b) /\ SubSeq(b, 1, Len(a)) = a

\* step() runs only when reassemble() has run after the most recent update()
StepAfterReassemble ==
    \A i \in 1..Len(calls) :
        calls[i].op = "step" =>
            (i >= 3 /\ calls[i - 1].op = "reassemble" /\ calls[i - 2].op = "update")

Schemes == {"Implicit", "BDF2", "Explicit", "CrankNicolson"}

\* C16: solve() of Implicit, BDF2 and Crank-Nicolson calls update(t),
\* reassemble(), step() for t = dt, 2 dt, ... while t <= T and then update
\* once more at the first t past T; Explicit.solve() calls them for
\* t = 0, dt, ... while t <= T - dt and calls nothing after its last step;
\* step() never runs unless reassemble() has run after the latest update().
C16_CallOrder ==
    prob.cls \in Schemes =>
        /\ IsPrefix(calls, ExpectedCalls)
        /\ pc = "done" => calls = ExpectedCalls
        /\ StepAfterReassemble

\* the call order of the claim holds for the end times below 128 s
CallOrderBelowAbsorb ==
    (prob.cls \in Schemes /\ prob.T < Absorb) =>
        /\ IsPrefix(calls, ExpectedCalls)
        /\ pc = "done" => calls = ExpectedCalls
        /\ StepAfterReassemble

\* solve() of a scheme of the implicit family has returned
ImplicitDone == pc = "done" /\ prob.cls \in {"Implicit", "BDF2", "CrankNicolson"}

\* C17: when solve() of Implicit, BDF2 or Crank-Nicolson returns, p0 equals
\* p, the state the last step returned, and with store_results on the last
\* recorded entry is that state.
C17_FinalFlush ==
    ImplicitDone =>
        /\ self.p0 = self.p
        /\ self.p = accepted[nsteps + 1]
        /\ StoreOn =>
              /\ Len(data.physics) >= 1
              /\ data.physics[Len(data.physics)] = self.p

\* BDF2 has returned with results stored and its last step changed the state
C17_Witness ==
    /\ ImplicitDone /\ prob.cls = "BDF2" /\ StoreOn
    /\ nsteps >= 2
    /\ accepted[nsteps + 1] # accepted[nsteps]

\* the i-th recorded entry carries the time (i - 1) dt, counting from 1, and
\* every recorded time lies in 0..T; the first entry is the initial condition
TimesOnGrid ==
    /\ Len(data.times) = Len(data.physics)
    /\ \A i \in 1..Len(data.times) :
          /\ data.times[i] = (i - 1) * prob.dt
          /\ data.times[i] >= 0
          /\ data.times[i] <= prob.T
    /\ Len(data.physics) >= 1 => data.physics[1] = R(prob.p_init)

\* C18: with store_results on, for every scheme including Explicit, the
\* i-th recorded entry (i = 0, 1, ...) carries the time i dt: the initial
\* condition has time 0, times increase by dt, none is negative or above T.
C18_TimesOnGrid == StoreOn => TimesOnGrid

\* the recorded times of the implicit family are those of the claim
TimesOnGridImplicit == (StoreOn /\ prob.cls # "Explicit") => TimesOnGrid

\* Explicit records the initial condition with the time -dt
ExplicitTimesShifted ==
    (StoreOn /\ prob.cls = "Explicit") =>
        \A i \in 1..Len(data.times) : data.times[i] = (i - 2) * prob.dt

\* ------------------------------------- the methods called in any sequence
FreeProblems ==
    {[cls |-> c, g |-> g, space_disc |-> sd,
      time_disc |-> One(Term(1, 0, 0, FALSE)), dt |-> 1, T |-> e, p_init |-> 1] :
        c \in Classes, g \in Grids,
        sd \in {One(Term(1, 1, 0, FALSE)),
                Tuple(<<Term(1, 1, 0, TRUE), Term(1, 1, 0, FALSE)>>)},
        e \in 0..2}

FreeInit ==
    /\ prob \in FreeProblems
    /\ pc = "init"
    /\ exc = "none"
    /\ t = 0
    /\ self = [NoObject EXCEPT !.cls = prob.cls]
    /\ data = [physics |-> None, times |-> None]
    /\ env = [time |-> 0,
              vecs |-> [space |-> StoredVecs(prob.space_disc),
                        time |-> StoredVecs(prob.time_disc)]]
    /\ nsteps = 0
    /\ accepted = <<>>
    /\ asm = <<>>
    /\ calls = <<>>

\* the caller is between two calls and may make another
MayCall == pc = "ready" /\ Len(calls) < MaxTrace

\* solver.update(t), called directly
CallUpdate ==
    /\ MayCall
    /\ \E tt \in 0..2 :
          /\ Commit(update(World, tt))
          /\ Called("update", tt)
    /\ UNCHANGED <<prob, pc, exc, t, nsteps, accepted, asm>>

\* solver.reassemble() of a scheme, called directly
CallReassemble ==
    /\ MayCall
    /\ self.cls # "AbstractSolver"
    /\ Reassembled(reassemble(World))
    /\ Called("reassemble", t)
    /\ UNCHANGED <<prob, pc, exc, t, nsteps, accepted>>

\* solver.reassemble() of AbstractSolver, called directly: the error goes
\* to the caller, the object is as before
CallReassembleRaises ==
    /\ MayCall
    /\ self.cls = "AbstractSolver"
    /\ exc' = "NotImplementedError"
    /\ Called("reassemble", t)
    /\ UNCHANGED <<prob, pc, t, self, data, env, nsteps, accepted, asm>>

\* solver.step(), called directly on an assembled system
CallStep ==
    /\ MayCall
    /\ self.lhs # None
    /\ Stepped(step(World))
    /\ nsteps' = nsteps + 1
    /\ Called("step", t)
    /\ UNCHANGED <<prob, pc, exc, t, asm>>

\* solver.parameters['store_results'] = False
ClearStoreResults ==
    /\ pc = "ready"
    /\ self.store_results = TRUE
    /\ self' = [self EXCEPT !.store_results = FALSE]
    /\ UNCHANGED <<prob, pc, exc, t, data, env, nsteps, accepted, asm, calls>>

\* solver.solve() is called
CallSolve ==
    /\ MayCall
    /\ SolveStart

\* solve() has returned to the caller
SolveReturned ==
    /\ pc = "done"
    /\ pc' = "ready"
    /\ UNCHANGED <<prob, exc, t, self, data, env, nsteps, accepted, asm, calls>>

FreeNext ==
    \/ Construct
    \/ SetStoreResults
    \/ ClearStoreResults
    \/ CallUpdate
    \/ CallReassemble
    \/ CallReassembleRaises
    \/ CallStep
    \/ CallSolve
    \/ LoopUpdate
    \/ Reassemble
    \/ ReassembleRaises
    \/ Step
    \/ FinalUpdate
    \/ ExplicitReturn
    \/ SolveReturned

FreeSpec == FreeInit /\ [][FreeNext]_vars

\* C19: data[physics] and data['times'] always have the same length, and a
\* call appends at most one entry to each and changes or removes none of
\* those recorded, in any sequence of update, reassemble, step and solve
\* calls and with store_results on or off.
C19_ParallelAppendOnly ==
    /\ [](Len(data.physics) = Len(data.times))
    /\ [][/\ IsPrefix(data.physics, data'.physics)
          /\ IsPrefix(data.times, data'.times)
          /\ Len(data'.physics) <= Len(data.physics) + 1]_vars

\* entries were recorded by updates called in and out of solve(), a step was
\* taken between them, and store_results is off again
C19_Witness ==
    /\ pc = "ready" /\ ~StoreOn /\ nsteps >= 1
    /\ Len(data.physics) >= 2
    /\ data.physics[1] # data.physics[Len(data.physics)]
    /\ \E i \in 1..Len(calls) : calls[i].op = "update" /\ calls[i].t = 0

\* ------------------------------------------------ solve() runs to its end
\* one space term and one time term; steps of 5e-7, 1.5e-6 and 64 s
FairProblems ==
    {q \in Problems :
        /\ q.space_disc = One(Term(1, 1, 0, FALSE))
        /\ q.time_disc = One(Term(1, 0, 0, FALSE))
        /\ q.p_init = 1
        /\ q.dt # 2}

FairInit ==
    /\ prob \in FairProblems
    /\ pc = "init"
    /\ exc = "none"
    /\ t = 0
    /\ self = [NoObject EXCEPT !.cls = prob.cls]
    /\ data = [physics |-> None, times |-> None]
    /\ env = [time |-> 0,
              vecs |-> [space |-> StoredVecs(prob.space_disc),
                        time |-> StoredVecs(prob.time_disc)]]
    /\ nsteps = 0
    /\ accepted = <<>>
    /\ asm = <<>>
    /\ calls = <<>>

\* the caller is at a statement of the constructor or of solve(), or about
\* to call solve()
Running == pc \in {"init", "ready", "loop", "reassemble", "step"}

\* the caller moves on to its next position
Advance ==
    /\ Running
    /\ pc' \in {"ready", "loop", "reassemble", "step", "done", "raised"}
    /\ pc' # pc

\* every statement reached is executed and returns: the caller keeps moving
\* on until solve() has returned or raised
FairSpec == FairInit /\ [][Next]_vars /\ WF_pc(Advance)

\* the number of k >= 1 with k dt < T + 1e-14: k dt <= T for times that are
\* whole units, and none when T < dt
ClaimedLoopCount == prob.T \div prob.dt

\* solve() of every scheme returns once it has started
SolveReturns == (pc = "loop" /\ prob.cls \in Schemes) ~> (pc = "done")

\* C20: solve() of every scheme eventually returns, and the loop of the
\* implicit family runs once for each k >= 1 with k dt < T + 1e-14, zero
\* times when T < dt.
C20_Termination ==
    /\ SolveReturns
    /\ [](ImplicitDone => nsteps = ClaimedLoopCount)

\* the loop count of the claim holds for the end times below 128 s
LoopCountBelowAbsorb ==
    (ImplicitDone /\ prob.T < Absorb) => nsteps = ClaimedLoopCount

====
